---- MODULE Spec2Model ----
(***************************************************************************)
(* Model of the DICOM anonymizer (src/anonymize_dicom.py).                 *)
(*                                                                         *)
(*   Spec       one direct call of anonymize_dicom_file on one input file, *)
(*              followed by further calls on the file it has just saved.   *)
(*   BatchSpec  one click of the "Anonymize Directory" button: the         *)
(*              directory walk and the batch loop calling                  *)
(*              anonymize_dicom_file for every collected file.             *)
(*                                                                         *)
(* A path is a sequence of string fragments (the stand-in for Python's     *)
(* character strings): "/" is the separator and a name may be made of      *)
(* several fragments, so that "anonymized" \o "_old" is a name that has    *)
(* the name "anonymized" as a proper string prefix.                        *)
(***************************************************************************)
EXTENDS Naturals, Sequences, FiniteSets, TLC

VARIABLES
    fs,                 \* the files on disk: path -> content
    dirs,               \* the directories on disk
    uid_counter,        \* number of identifiers generate_uid has issued
    input_path,         \* anonymize_dicom_file: parameter
    output_path,        \* anonymize_dicom_file: parameter
    tags_to_anonymize,  \* anonymize_dicom_file: parameter
    ds,                 \* anonymize_dicom_file: the decoded main dataset
    file_meta,          \* anonymize_dicom_file: ds.file_meta
    k,                  \* anonymize_dicom_file: position of the rewrite loop
    pc,                 \* anonymize_dicom_file: position in the function
    ret,                \* anonymize_dicom_file: the value returned
    exc,                \* the exception leaving anonymize_dicom_file
    failed_at,          \* the position the exception was raised at
    done,               \* history: mutation steps completed by this call
    wrote,              \* history: this call has executed ds.save_as
    made_dirs,          \* history: this call has executed os.makedirs
    uid_at_call,        \* history: uid_counter when this call started
    runs,               \* Spec: number of direct calls made so far
    bpc,                \* the button handler's position
    selected_tags,      \* the selection made in the UI, in catalog order
    input_dir,          \* the directory typed into the text input
    walk,               \* os.walk: directories still to be yielded
    files_to_process,   \* the list the walk collects
    i,                  \* batch loop: 0-based index of the current file
    anonymized_count,   \* batch loop: number of True results
    results             \* history: the result of every finished call

vars == <<fs, dirs, uid_counter, input_path, output_path, tags_to_anonymize,
          ds, file_meta, k, pc, ret, exc, failed_at, done, wrote, made_dirs,
          uid_at_call, runs, bpc, selected_tags, input_dir, walk,
          files_to_process, i, anonymized_count, results>>

callVars == <<input_path, output_path, tags_to_anonymize, ds, file_meta, k,
              pc, ret, exc, failed_at, done, wrote, made_dirs, uid_at_call>>

batchVars == <<selected_tags, input_dir, walk, files_to_process, i,
               anonymized_count, results>>

----------------------------------------------------------------------------
(* Bounds of the model. *)

\* at most this many elements in the main dataset of an input file
MaxElems == 2
\* at most this many selected tags
MaxSel == 2
\* Spec: at most this many successive calls (each on the previous output)
MaxRuns == 2
\* BatchSpec: at most this many files in the directory tree
MaxFiles == 3

----------------------------------------------------------------------------
(* Tags: (group, element), written in decimal. *)

PatientName             == <<16, 16>>      \* (0010,0010) PN
PatientID               == <<16, 32>>      \* (0010,0020) LO
PatientBirthDate        == <<16, 48>>      \* (0010,0030) DA
PatientBirthTime        == <<16, 50>>      \* (0010,0032) TM
PatientSex              == <<16, 64>>      \* (0010,0040) CS
OtherPatientIDsSequence == <<16, 4098>>    \* (0010,1002) SQ
PatientSize             == <<16, 4128>>    \* (0010,1020) DS
SOPInstanceUID          == <<8, 24>>       \* (0008,0018) UI
PrivateCreator          == <<9, 16>>       \* (0009,0010) LO, private
MediaStorageSOPInstanceUID == <<2, 3>>     \* (0002,0003) UI, file meta
TransferSyntaxUID       == <<2, 16>>       \* (0002,0010) UI, file meta

TAGS_TO_ANONYMIZE_BY_GROUP ==
    << \* Patient Information
       << <<16, 16>>, <<16, 32>>, <<16, 33>>, <<16, 48>>, <<16, 50>>,
          <<16, 64>>, <<16, 4096>>, <<16, 4097>>, <<16, 4098>>, <<16, 4112>>,
          <<16, 4128>>, <<16, 4144>>, <<16, 4160>>, <<16, 8544>>,
          <<16, 8576>>, <<16, 8624>>, <<16, 16384>> >>,
       \* Physician Information
       << <<8, 128>>, <<8, 129>>, <<8, 144>>, <<8, 146>>, <<8, 148>>,
          <<8, 4176>>, <<8, 4208>> >>,
       \* Study Information
       << <<8, 4144>>, <<8, 80>>, <<50, 4146>> >>,
       \* Equipment Information
       << <<8, 4112>> >>,
       \* UIDs
       << <<32, 13>>, <<32, 14>>, <<8, 24>>, <<32, 82>> >> >>

RECURSIVE Flatten(_)
Flatten(groups) ==
    IF groups = <<>> THEN <<>> ELSE Head(groups) \o Flatten(Tail(groups))

ALL_TAGS_TO_ANONYMIZE == Flatten(TAGS_TO_ANONYMIZE_BY_GROUP)

CatalogTags == {ALL_TAGS_TO_ANONYMIZE[n] : n \in 1..Len(ALL_TAGS_TO_ANONYMIZE)}

\* pydicom BaseTag.is_private: the group number is odd
is_private(tag) == tag[1] % 2 = 1

----------------------------------------------------------------------------
(* Paths. *)

Sep == "/"

\* str.startswith
startswith(s, prefix) ==
    Len(prefix) <= Len(s) /\ SubSeq(s, 1, Len(prefix)) = prefix

\* os.path.join(a, b) for a relative b and an a that does not end in Sep
join(a, b) == a \o <<Sep>> \o b

SepPositions(p) == {n \in 1..Len(p) : p[n] = Sep}

LastSep(p) == CHOOSE n \in SepPositions(p) : \A m \in SepPositions(p) : m <= n

\* os.path.dirname
dirname(p) == IF SepPositions(p) = {} THEN <<>> ELSE SubSeq(p, 1, LastSep(p) - 1)

\* os.path.basename
basename(p) == IF SepPositions(p) = {} THEN p ELSE SubSeq(p, LastSep(p) + 1, Len(p))

\* os.path.relpath(p, start) for a p inside start, the only use the program makes
relpath(p, start) == SubSeq(p, Len(start) + 2, Len(p))

\* os.makedirs(d): d and every missing ancestor
makedirs(d) ==
    {SubSeq(d, 1, n - 1) : n \in (SepPositions(d) \cup {Len(d) + 1})}

----------------------------------------------------------------------------
(* Datasets: a function from tags to elements [VR, value].  The value of  *)
(* an SQ element is a sequence of items, each a dataset of its own.        *)

Elem(vr, v) == [VR |-> vr, value |-> v]

EmptyDs == <<>>

Without(d, tag) == [t \in DOMAIN d \ {tag} |-> d[t]]

\* a removal that does not recurse into sequence items
remove_private_tags_TopLevel(d) ==
    [t \in {u \in DOMAIN d : ~is_private(u)} |-> d[t]]

\* Dataset.remove_private_tags: walk() visits every element, recursing into
\* the items of sequences, and deletes the elements with a private tag
RECURSIVE remove_private_tags(_)
remove_private_tags(d) ==
    [t \in {u \in DOMAIN d : ~is_private(u)} |->
        IF d[t].VR = "SQ"
        THEN Elem("SQ", [n \in 1..Len(d[t].value) |->
                            remove_private_tags(d[t].value[n])])
        ELSE d[t]]

\* a generator that returns the same identifier on every call
generate_uid_Constant(n) == "1.2.826.0.1.3680043.8.498." \o ToString(1)

\* pydicom.uid.generate_uid(): the n-th identifier issued; the library draws
\* the suffix at random, here successive calls get successive suffixes
generate_uid(n) == "1.2.826.0.1.3680043.8.498." \o ToString(n)

\* the value `ds[tag].value = ""` leaves in an element that accepts it
EmptyValue(vr) == IF vr = "SQ" THEN <<>> ELSE ""

\* a policy that blanks dates instead of writing the sentinel date
RewriteDirective_BlankDate(vr, uid, rejects) ==
    IF vr = "UI" THEN [op |-> "set", value |-> uid]
    ELSE IF vr \in {"PN", "SH", "LO", "ST", "LT"}
         THEN [op |-> "set", value |-> "ANONYMIZED"]
    ELSE IF vr = "TM" THEN [op |-> "set", value |-> "000000"]
    ELSE IF vr \in {"DS", "IS"} THEN [op |-> "set", value |-> "0"]
    ELSE IF rejects THEN [op |-> "delete", value |-> EmptyValue(vr)]
    ELSE [op |-> "set", value |-> EmptyValue(vr)]

\* The branches of lines 79-94: the new value of an element of this VR, or
\* the directive to delete it.  rejects: the element's setter raises
\* TypeError on the empty value.
RewriteDirective(vr, uid, rejects) ==
    IF vr = "UI" THEN [op |-> "set", value |-> uid]
    ELSE IF vr \in {"PN", "SH", "LO", "ST", "LT"}
         THEN [op |-> "set", value |-> "ANONYMIZED"]
    ELSE IF vr = "DA" THEN [op |-> "set", value |-> "18000101"]
    ELSE IF vr = "TM" THEN [op |-> "set", value |-> "000000"]
    ELSE IF vr \in {"DS", "IS"} THEN [op |-> "set", value |-> "0"]
    ELSE IF rejects THEN [op |-> "delete", value |-> EmptyValue(vr)]
    ELSE [op |-> "set", value |-> EmptyValue(vr)]

----------------------------------------------------------------------------
(* File contents. *)

\* DICOM encodes every value on an even number of bytes: a string of odd
\* length is written with one trailing padding character, NUL for UI and
\* space for the other string VRs ("#" stands for NUL here)
PadChar(vr) == IF vr = "UI" THEN "#" ELSE " "

\* the writer's padding of a string value
pad(vr, v) == IF Len(v) % 2 = 1 THEN v \o PadChar(vr) ELSE v

\* the reader strips the trailing padding
RECURSIVE rstrip(_, _)
rstrip(v, c) ==
    IF Len(v) > 0 /\ SubSeq(v, Len(v), Len(v)) = c
    THEN rstrip(SubSeq(v, 1, Len(v) - 1), c)
    ELSE v

\* ds.save_as: the dataset as written to disk
RECURSIVE encode(_)
encode(d) ==
    [t \in DOMAIN d |->
        IF d[t].VR = "SQ"
        THEN Elem("SQ", [n \in 1..Len(d[t].value) |-> encode(d[t].value[n])])
        ELSE Elem(d[t].VR, pad(d[t].VR, d[t].value))]

\* pydicom.dcmread: the dataset decoded from disk
RECURSIVE decode(_)
decode(d) ==
    [t \in DOMAIN d |->
        IF d[t].VR = "SQ"
        THEN Elem("SQ", [n \in 1..Len(d[t].value) |-> decode(d[t].value[n])])
        ELSE Elem(d[t].VR, rstrip(d[t].value, PadChar(d[t].VR)))]

\* the file save_as writes for dataset d with file meta m
Dicom(d, m) == [kind |-> "dicom", ds |-> encode(d), file_meta |-> encode(m)]
NonDicom    == [kind |-> "nondicom", ds |-> EmptyDs, file_meta |-> EmptyDs]
Unreadable  == [kind |-> "unreadable", ds |-> EmptyDs, file_meta |-> EmptyDs]

----------------------------------------------------------------------------
(* The input space of Spec. *)

\* the tags an input dataset may hold at its top level
ModelTags == {SOPInstanceUID, PatientName, PatientBirthDate, PatientBirthTime,
              PatientSex, OtherPatientIDsSequence, PatientSize, PrivateCreator}

\* the tags that can be ticked in the UI, among those inputs may hold
SelectableTags == CatalogTags \cap ModelTags

\* the items a sequence element may hold: without and with a private element
ItemPublic  == (PatientID :> Elem("LO", "ID-2"))
ItemPrivate == (PatientID :> Elem("LO", "ID-2")) @@ (PrivateCreator :> Elem("LO", "ACME"))
SequenceValues == {<< ItemPublic >>, << ItemPrivate >>}

\* the element an input file holds under a tag (its VR is the dictionary's)
OriginalElement(tag, sq) ==
    IF tag = SOPInstanceUID THEN Elem("UI", "1.2.3.4")
    ELSE IF tag = PatientName THEN Elem("PN", "Jane Doe")
    ELSE IF tag = PatientBirthDate THEN Elem("DA", "19850604")
    ELSE IF tag = PatientBirthTime THEN Elem("TM", "101500")
    ELSE IF tag = PatientSex THEN Elem("CS", "F")
    ELSE IF tag = OtherPatientIDsSequence THEN Elem("SQ", sq)
    ELSE IF tag = PatientSize THEN Elem("DS", "1.70")
    ELSE Elem("LO", "ACME")

InputDatasets ==
    {[t \in S |-> OriginalElement(t, sq)] :
        S \in {T \in SUBSET ModelTags : Cardinality(T) <= MaxElems},
        sq \in SequenceValues}

\* the file meta of an input: always a transfer syntax, and a media storage
\* SOP instance UID that is absent, equal to "1.2.3.4" or different from it
MetaUids == {"absent", "1.2.3.4", "9.9.9.9"}

InputMeta(uid) ==
    IF uid = "absent"
    THEN (TransferSyntaxUID :> Elem("UI", "1.2.840.10008.1.2.1"))
    ELSE (TransferSyntaxUID :> Elem("UI", "1.2.840.10008.1.2.1"))
         @@ (MediaStorageSOPInstanceUID :> Elem("UI", uid))

InputFiles ==
    {Dicom(d, InputMeta(u)) : d \in InputDatasets, u \in MetaUids}
    \cup {NonDicom, Unreadable}

\* the list the UI builds from the ticked checkboxes (lines 162-170): the
\* ticked tags in catalog order
SelectedList(ticked) == SelectSeq(ALL_TAGS_TO_ANONYMIZE, LAMBDA t : t \in ticked)

Selections ==
    {SelectedList(T) : T \in {U \in SUBSET SelectableTags : Cardinality(U) <= MaxSel}}

\* lines 182 and 203-204: where the output of a file goes
OutputDir(indir) == join(indir, <<"anonymized">>)
OutputFilePath(file_path, indir) == join(OutputDir(indir), relpath(file_path, indir))

InputDir == <<"in">>
DirectInput == join(InputDir, <<"a.dcm">>)

----------------------------------------------------------------------------
(* anonymize_dicom_file, step by step. *)

\* an exception leaves the function; inside the batch loop nothing catches
\* it, and it ends the button handler
Raise(type) ==
    /\ pc' = "raised"
    /\ exc' = type
    /\ failed_at' = pc
    /\ bpc' = IF bpc = "in_call" THEN "aborted" ELSE bpc

\* a read whose handler catches every exception, not only InvalidDicomError
DcmRead_CatchAll ==
    /\ pc = "read"
    /\ LET c == fs[input_path] IN
       IF c.kind = "dicom"
       THEN /\ ds' = decode(c.ds)
            /\ file_meta' = decode(c.file_meta)
            /\ k' = 1
            /\ pc' = "loop"
            /\ UNCHANGED ret
       ELSE /\ pc' = "returned"
            /\ ret' = "False"
            /\ UNCHANGED <<ds, file_meta, k>>
    /\ UNCHANGED <<fs, dirs, uid_counter, input_path, output_path,
                   tags_to_anonymize, exc, failed_at, bpc, done, wrote,
                   made_dirs, uid_at_call, runs>>
    /\ UNCHANGED batchVars

\* lines 68-72: pydicom.dcmread
DcmRead ==
    /\ pc = "read"
    /\ LET c == fs[input_path] IN
       IF c.kind = "dicom"
       THEN /\ ds' = decode(c.ds)
            /\ file_meta' = decode(c.file_meta)
            /\ k' = 1
            /\ pc' = "loop"
            /\ UNCHANGED <<ret, exc, failed_at, bpc>>
       ELSE IF c.kind = "nondicom"
       THEN /\ pc' = "returned"
            /\ ret' = "False"
            /\ UNCHANGED <<ds, file_meta, k, exc, failed_at, bpc>>
       ELSE /\ Raise("OSError")
            /\ UNCHANGED <<ds, file_meta, k, ret>>
    /\ UNCHANGED <<fs, dirs, uid_counter, input_path, output_path,
                   tags_to_anonymize, done, wrote, made_dirs, uid_at_call,
                   runs>>
    /\ UNCHANGED batchVars

\* a loop over the whole catalog instead of the caller's selection
TagsToRewrite_Catalog == ALL_TAGS_TO_ANONYMIZE

\* line 75: the list the rewrite loop iterates over
TagsToRewrite == tags_to_anonymize

\* lines 75-94: one iteration of the rewrite loop
RewriteTag ==
    /\ pc = "loop"
    /\ k <= Len(TagsToRewrite)
    /\ LET tag == TagsToRewrite[k] IN
       IF tag \in DOMAIN ds
       THEN \E rejects \in BOOLEAN :
            LET vr == ds[tag].VR
                d  == RewriteDirective(vr, generate_uid(uid_counter + 1), rejects)
            IN /\ ds' = IF d.op = "delete"
                        THEN Without(ds, tag)
                        ELSE [ds EXCEPT ![tag].value = d.value]
               /\ uid_counter' = IF vr = "UI" THEN uid_counter + 1 ELSE uid_counter
       ELSE UNCHANGED <<ds, uid_counter>>
    /\ k' = k + 1
    /\ UNCHANGED <<fs, dirs, input_path, output_path, tags_to_anonymize,
                   file_meta, pc, ret, exc, failed_at, done, wrote, made_dirs,
                   uid_at_call, runs, bpc>>
    /\ UNCHANGED batchVars

\* lines 96-97, reached when the loop is exhausted
RemovePrivateTags ==
    /\ pc = "loop"
    /\ k > Len(TagsToRewrite)
    /\ ds' = remove_private_tags(ds)
    /\ done' = done \cup {"rewrite", "private"}
    /\ pc' = "meta"
    /\ UNCHANGED <<fs, dirs, uid_counter, input_path, output_path,
                   tags_to_anonymize, file_meta, k, ret, exc, failed_at,
                   wrote, made_dirs, uid_at_call, runs, bpc>>
    /\ UNCHANGED batchVars

\* the meta header left as decoded
SyncFileMeta_NoSync ==
    /\ pc = "meta"
    /\ done' = done \cup {"meta"}
    /\ pc' = "mkdir"
    /\ UNCHANGED <<fs, dirs, uid_counter, input_path, output_path,
                   tags_to_anonymize, ds, file_meta, k, ret, exc, failed_at,
                   wrote, made_dirs, uid_at_call, runs, bpc>>
    /\ UNCHANGED batchVars

\* lines 99-101: ds.SOPInstanceUID raises AttributeError when the dataset has
\* no such element
SyncFileMeta ==
    /\ pc = "meta"
    /\ IF MediaStorageSOPInstanceUID \in DOMAIN file_meta
       THEN IF SOPInstanceUID \in DOMAIN ds
            THEN /\ file_meta' = [file_meta EXCEPT
                       ![MediaStorageSOPInstanceUID].value = ds[SOPInstanceUID].value]
                 /\ done' = done \cup {"meta"}
                 /\ pc' = "mkdir"
                 /\ UNCHANGED <<exc, failed_at, bpc>>
            ELSE /\ Raise("AttributeError")
                 /\ UNCHANGED <<file_meta, done>>
       ELSE /\ done' = done \cup {"meta"}
            /\ pc' = "mkdir"
            /\ UNCHANGED <<file_meta, exc, failed_at, bpc>>
    /\ UNCHANGED <<fs, dirs, uid_counter, input_path, output_path,
                   tags_to_anonymize, ds, k, ret, wrote, made_dirs,
                   uid_at_call, runs>>
    /\ UNCHANGED batchVars

\* lines 103-106
MakeDirs ==
    /\ pc = "mkdir"
    /\ LET output_dir == dirname(output_path) IN
       IF output_dir \notin dirs
       THEN /\ dirs' = dirs \cup makedirs(output_dir)
            /\ made_dirs' = TRUE
       ELSE UNCHANGED <<dirs, made_dirs>>
    /\ pc' = "save"
    /\ UNCHANGED <<fs, uid_counter, input_path, output_path, tags_to_anonymize,
                   ds, file_meta, k, ret, exc, failed_at, done, wrote,
                   uid_at_call, runs, bpc>>
    /\ UNCHANGED batchVars

\* line 106: os.makedirs raises OSError (the destination cannot be created)
MakeDirsFails ==
    /\ pc = "mkdir"
    /\ dirname(output_path) \notin dirs
    /\ Raise("OSError")
    /\ UNCHANGED <<fs, dirs, uid_counter, input_path, output_path,
                   tags_to_anonymize, ds, file_meta, k, ret, done, wrote,
                   made_dirs, uid_at_call, runs>>
    /\ UNCHANGED batchVars

\* a save that does not wait for the meta header step
SaveAs_Early ==
    /\ pc \in {"meta", "save"}
    /\ fs' = [p \in DOMAIN fs \cup {output_path} |->
                IF p = output_path THEN Dicom(ds, file_meta) ELSE fs[p]]
    /\ wrote' = TRUE
    /\ ret' = IF pc = "save" THEN "True" ELSE ret
    /\ pc' = IF pc = "save" THEN "returned" ELSE pc
    /\ UNCHANGED <<dirs, uid_counter, input_path, output_path,
                   tags_to_anonymize, ds, file_meta, k, exc, failed_at, done,
                   made_dirs, uid_at_call, runs, bpc>>
    /\ UNCHANGED batchVars

\* lines 108-111
SaveAs ==
    /\ pc = "save"
    /\ fs' = [p \in DOMAIN fs \cup {output_path} |->
                IF p = output_path THEN Dicom(ds, file_meta) ELSE fs[p]]
    /\ wrote' = TRUE
    /\ ret' = "True"
    /\ pc' = "returned"
    /\ UNCHANGED <<dirs, uid_counter, input_path, output_path,
                   tags_to_anonymize, ds, file_meta, k, exc, failed_at, done,
                   made_dirs, uid_at_call, runs, bpc>>
    /\ UNCHANGED batchVars

\* line 109: ds.save_as raises OSError (the destination cannot be opened)
SaveAsFails ==
    /\ pc = "save"
    /\ Raise("OSError")
    /\ UNCHANGED <<fs, dirs, uid_counter, input_path, output_path,
                   tags_to_anonymize, ds, file_meta, k, ret, done, wrote,
                   made_dirs, uid_at_call, runs>>
    /\ UNCHANGED batchVars

\* line 63: entering the function
Enter(in, out, tags) ==
    /\ input_path' = in
    /\ output_path' = out
    /\ tags_to_anonymize' = tags
    /\ ds' = EmptyDs
    /\ file_meta' = EmptyDs
    /\ k' = 0
    /\ pc' = "read"
    /\ ret' = "none"
    /\ exc' = "none"
    /\ failed_at' = "none"
    /\ done' = {}
    /\ wrote' = FALSE
    /\ made_dirs' = FALSE
    /\ uid_at_call' = uid_counter

\* a further direct call, on the file the previous call has saved, with the
\* same selection and the directory of that file as the input directory
Rerun ==
    /\ bpc = "direct"
    /\ pc = "returned"
    /\ ret = "True"
    /\ runs < MaxRuns
    /\ Enter(output_path,
             OutputFilePath(output_path, dirname(output_path)),
             tags_to_anonymize)
    /\ runs' = runs + 1
    /\ input_dir' = dirname(output_path)
    /\ UNCHANGED <<fs, dirs, uid_counter, bpc, selected_tags, walk,
                   files_to_process, i, anonymized_count, results>>

FileStep ==
    \/ DcmRead
    \/ RewriteTag
    \/ RemovePrivateTags
    \/ SyncFileMeta
    \/ MakeDirs
    \/ MakeDirsFails
    \/ SaveAs
    \/ SaveAsFails

\* one direct call, with any selection the catalog allows (the empty one
\* included) on any input file
Init ==
    /\ \E c \in InputFiles : fs = (DirectInput :> c)
    /\ dirs = {InputDir}
    /\ uid_counter = 0
    /\ selected_tags \in Selections
    /\ input_dir = InputDir
    /\ input_path = DirectInput
    /\ output_path = OutputFilePath(DirectInput, InputDir)
    /\ tags_to_anonymize = selected_tags
    /\ ds = EmptyDs
    /\ file_meta = EmptyDs
    /\ k = 0
    /\ pc = "read"
    /\ ret = "none"
    /\ exc = "none"
    /\ failed_at = "none"
    /\ done = {}
    /\ wrote = FALSE
    /\ made_dirs = FALSE
    /\ uid_at_call = 0
    /\ runs = 1
    /\ bpc = "direct"
    /\ walk = <<>>
    /\ files_to_process = <<>>
    /\ i = 0
    /\ anonymized_count = 0
    /\ results = <<>>

Next == FileStep \/ Rerun

Spec == Init /\ [][Next]_vars

----------------------------------------------------------------------------
(* Properties of one call (Spec). *)

Succeeded == pc = "returned" /\ ret = "True"

MutationSteps == {"rewrite", "private", "meta"}

\* the files written by calls of anonymize_dicom_file (Spec starts with the
\* single file DirectInput on disk)
SavedPaths == DOMAIN fs \ {DirectInput}

OddGroup(tag) == tag[1] % 2 = 1

RECURSIVE HasPrivate(_)
HasPrivate(d) ==
    \E t \in DOMAIN d :
        \/ OddGroup(t)
        \/ /\ d[t].VR = "SQ"
           /\ \E n \in 1..Len(d[t].value) : HasPrivate(d[t].value[n])

RECURSIVE PublicPart(_)
PublicPart(d) ==
    [t \in {u \in DOMAIN d : ~OddGroup(u)} |->
        IF d[t].VR = "SQ"
        THEN [VR |-> "SQ",
              value |-> [n \in 1..Len(d[t].value) |-> PublicPart(d[t].value[n])]]
        ELSE d[t]]

\* what a reader decodes from the file at path p
StoredDs(p) == decode(fs[p].ds)
StoredMeta(p) == decode(fs[p].file_meta)
Stored(p) == [ds |-> StoredDs(p), file_meta |-> StoredMeta(p)]

SelectedSet == {tags_to_anonymize[n] : n \in 1..Len(tags_to_anonymize)}

IssuedByThisCall == {generate_uid(n) : n \in (uid_at_call + 1)..uid_counter}

SameDataset(a, b) == DOMAIN a = DOMAIN b /\ \A t \in DOMAIN a : a[t] = b[t]

\* C1: once the mutation steps of anonymize_dicom_file are finished, a Media
\* Storage SOP Instance UID (0002,0003) present in the file meta equals the
\* main dataset's SOP Instance UID (0008,0018), and so it does in every
\* dataset the function has saved.
C1_MetaUidEqualsSopUid ==
    /\ (MutationSteps \subseteq done /\ MediaStorageSOPInstanceUID \in DOMAIN file_meta)
          => /\ SOPInstanceUID \in DOMAIN ds
             /\ file_meta[MediaStorageSOPInstanceUID].value = ds[SOPInstanceUID].value
    /\ \A p \in SavedPaths :
          MediaStorageSOPInstanceUID \in DOMAIN StoredMeta(p)
          => /\ SOPInstanceUID \in DOMAIN StoredDs(p)
             /\ StoredMeta(p)[MediaStorageSOPInstanceUID].value
                   = StoredDs(p)[SOPInstanceUID].value

\* a first call has saved a dataset whose selected SOP Instance UID was
\* regenerated and whose meta header held a different identifier on input
C1_Witness ==
    /\ Succeeded /\ runs = 1
    /\ SOPInstanceUID \in SelectedSet
    /\ MediaStorageSOPInstanceUID \in DOMAIN StoredMeta(input_path)
    /\ StoredMeta(input_path)[MediaStorageSOPInstanceUID].value = "9.9.9.9"
    /\ StoredDs(output_path)[SOPInstanceUID].value \in IssuedByThisCall

\* C2: no dataset saved by anonymize_dicom_file holds an element with an
\* odd-numbered group, at the top level, inside a sequence item or in the
\* file meta, whatever the selection.
C2_NoPrivateSaved ==
    \A p \in SavedPaths : ~HasPrivate(StoredDs(p)) /\ ~HasPrivate(StoredMeta(p))

\* the empty selection on an input with a private element at the top level
\* and one inside a sequence item
C2_Witness ==
    /\ Succeeded /\ runs = 1
    /\ tags_to_anonymize = <<>>
    /\ PrivateCreator \in DOMAIN StoredDs(input_path)
    /\ OtherPatientIDsSequence \in DOMAIN StoredDs(input_path)
    /\ HasPrivate(StoredDs(input_path)[OtherPatientIDsSequence].value[1])

\* C3: in the saved dataset every selected element of the input keeps its VR
\* and holds the value of its VR's rule: a fresh identifier for UI,
\* "ANONYMIZED" for PN/SH/LO/ST/LT, "18000101" for DA, "000000" for TM, "0"
\* for DS/IS; an element of any other VR is empty or gone.
C3_SelectedRewritten ==
    Succeeded =>
      LET old == StoredDs(input_path)
          new == StoredDs(output_path)
      IN \A t \in DOMAIN old \cap SelectedSet :
           LET vr == old[t].VR IN
           IF vr \in {"UI", "PN", "SH", "LO", "ST", "LT", "DA", "TM", "DS", "IS"}
           THEN /\ t \in DOMAIN new
                /\ new[t].VR = vr
                /\ IF vr = "UI"
                   THEN /\ new[t].value \in IssuedByThisCall
                        /\ new[t].value # old[t].value
                        /\ \A u \in DOMAIN new \ {t} :
                              new[u].VR = "UI" => new[u].value # new[t].value
                   ELSE new[t].value =
                          CASE vr \in {"PN", "SH", "LO", "ST", "LT"} -> "ANONYMIZED"
                            [] vr = "DA" -> "18000101"
                            [] vr = "TM" -> "000000"
                            [] vr \in {"DS", "IS"} -> "0"
           ELSE \/ t \notin DOMAIN new
                \/ /\ new[t].VR = vr
                   /\ IF vr = "SQ" THEN new[t].value = <<>> ELSE new[t].value = ""

\* a date and an element of another VR were selected; the date holds the
\* sentinel and the other element was deleted
C3_Witness ==
    /\ Succeeded /\ runs = 1
    /\ tags_to_anonymize = <<PatientBirthDate, PatientSex>>
    /\ DOMAIN StoredDs(input_path) = {PatientBirthDate, PatientSex}
    /\ DOMAIN StoredDs(output_path) = {PatientBirthDate}

\* C4 as stated: every element that is neither selected nor private is saved
\* as it was decoded, in the main dataset and in the file meta, and with the
\* empty selection a dataset without private elements is saved unchanged.
C4_Original ==
    Succeeded =>
      LET old == Stored(input_path)
          new == Stored(output_path)
      IN /\ \A t \in DOMAIN old.ds :
               (t \notin SelectedSet /\ ~OddGroup(t))
               => t \in DOMAIN new.ds /\ new.ds[t] = old.ds[t]
         /\ \A t \in DOMAIN old.file_meta :
               (t \notin SelectedSet /\ ~OddGroup(t))
               => t \in DOMAIN new.file_meta /\ new.file_meta[t] = old.file_meta[t]
         /\ (tags_to_anonymize = <<>> /\ \A t \in DOMAIN old.ds : ~OddGroup(t))
               => /\ SameDataset(new.ds, old.ds)
                  /\ SameDataset(new.file_meta, old.file_meta)

\* C4 (amended): every main-dataset element that is neither selected nor
\* private is saved as decoded except that private elements nested in its
\* sequence items are gone; the file meta is saved as decoded except that a
\* Media Storage SOP Instance UID holds the saved SOP Instance UID; with the
\* empty selection, a dataset with no private element at any depth whose
\* (0002,0003) is absent or equal to its (0008,0018) is saved unchanged.
C4_FrameAmended ==
    Succeeded =>
      LET old == Stored(input_path)
          new == Stored(output_path)
      IN /\ \A t \in DOMAIN old.ds :
               (t \notin SelectedSet /\ ~OddGroup(t))
               => /\ t \in DOMAIN new.ds
                  /\ new.ds[t] = PublicPart(old.ds)[t]
         /\ DOMAIN new.file_meta = DOMAIN old.file_meta
         /\ \A t \in DOMAIN old.file_meta :
               IF t = MediaStorageSOPInstanceUID
               THEN /\ new.file_meta[t].VR = old.file_meta[t].VR
                    /\ new.file_meta[t].value = new.ds[SOPInstanceUID].value
               ELSE new.file_meta[t] = old.file_meta[t]
         /\ ( /\ tags_to_anonymize = <<>>
              /\ ~HasPrivate(old.ds)
              /\ MediaStorageSOPInstanceUID \in DOMAIN old.file_meta
                   => /\ SOPInstanceUID \in DOMAIN old.ds
                      /\ old.file_meta[MediaStorageSOPInstanceUID].value
                            = old.ds[SOPInstanceUID].value )
               => /\ SameDataset(new.ds, old.ds)
                  /\ SameDataset(new.file_meta, old.file_meta)

\* the SOP Instance UID was selected beside an unselected sequence that
\* holds a private element, with a meta header to keep in step
C4_Witness ==
    /\ Succeeded /\ runs = 1
    /\ tags_to_anonymize = <<SOPInstanceUID>>
    /\ DOMAIN StoredDs(input_path) = {SOPInstanceUID, OtherPatientIDsSequence}
    /\ HasPrivate(StoredDs(input_path)[OtherPatientIDsSequence].value[1])
    /\ MediaStorageSOPInstanceUID \in DOMAIN StoredMeta(input_path)
    /\ OtherPatientIDsSequence \in DOMAIN StoredDs(output_path)

\* C7: the output file is written only after the rewrite loop, the private
\* tag removal and the meta UID sync have completed; a call that failed in
\* one of them has written no file at its output path.
C7_SaveAfterMutation ==
    /\ wrote => MutationSteps \subseteq done
    /\ (pc = "raised" /\ failed_at \in {"loop", "meta"})
          => ~wrote /\ output_path \notin DOMAIN fs

\* the meta UID sync failed (the dataset has no SOP Instance UID)
C7_Witness ==
    /\ pc = "raised" /\ failed_at = "meta" /\ exc = "AttributeError"
    /\ done = {"rewrite", "private"}

\* C9: a second call with the same selection on the dataset the first call
\* saved leaves every selected PN/SH/LO/ST/LT, DA and TM element at its
\* sentinel and gives every selected UI element a newly generated identifier.
C9_RerunFixedPoint ==
    (Succeeded /\ runs >= 2) =>
      LET old == StoredDs(input_path)
          new == StoredDs(output_path)
      IN \A t \in DOMAIN old \cap SelectedSet :
           LET vr == old[t].VR IN
           /\ vr \in {"PN", "SH", "LO", "ST", "LT", "DA", "TM"}
                => /\ old[t].value \in {"ANONYMIZED", "18000101", "000000"}
                   /\ t \in DOMAIN new
                   /\ new[t] = old[t]
           /\ vr = "UI"
                => /\ t \in DOMAIN new
                   /\ new[t].VR = "UI"
                   /\ new[t].value # old[t].value
                   /\ new[t].value \in IssuedByThisCall

\* the second call has saved a dataset with a selected name and a selected
\* identifier
C9_Witness ==
    /\ Succeeded /\ runs = 2
    /\ tags_to_anonymize = <<PatientName, SOPInstanceUID>>
    /\ DOMAIN StoredDs(input_path) = {PatientName, SOPInstanceUID}

----------------------------------------------------------------------------
(* The "Anonymize Directory" button (BatchSpec). *)

\* the directories a tree may hold, in the order os.walk lists siblings
TreeDirs ==
    << InputDir,
       join(InputDir, <<"anonymized">>),
       join(join(InputDir, <<"anonymized">>), <<"sub">>),
       join(InputDir, <<"anonymized", "_old">>),
       join(InputDir, <<"sub">>) >>

\* the files a tree may hold, in the order os.walk lists them: one per
\* directory, and a second one in the input directory
TreeFiles ==
    [n \in 1..Len(TreeDirs) |-> join(TreeDirs[n], <<"a.dcm">>)]
    \o << join(InputDir, <<"b.dcm">>) >>

TreeFileSet == {TreeFiles[n] : n \in 1..Len(TreeFiles)}

\* the datasets of the tree's DICOM files: a complete one, and one that has
\* a meta header but no SOP Instance UID
CompleteDataset ==
    Dicom((SOPInstanceUID :> Elem("UI", "1.2.3.4"))
          @@ (PatientName :> Elem("PN", "Jane Doe"))
          @@ (PrivateCreator :> Elem("LO", "ACME")),
          InputMeta("1.2.3.4"))
NoSopDataset ==
    Dicom((PatientName :> Elem("PN", "Jane Doe")), InputMeta("1.2.3.4"))

TreeContents == {NonDicom, Unreadable, CompleteDataset, NoSopDataset}

BatchSelections ==
    {<<>>, SelectedList({PatientName}), SelectedList({PatientName, SOPInstanceUID})}

\* os.walk lists the subdirectories and the files of a directory
Subdirs(root) == SelectSeq(TreeDirs, LAMBDA d : d \in dirs /\ dirname(d) = root)
FilesIn(root) == SelectSeq(TreeFiles, LAMBDA p : p \in DOMAIN fs /\ dirname(p) = root)

\* a test that matches the output directory itself only
SkipsRoot_ExactOnly(root, output_dir) == root = output_dir

\* line 188: the walk's test for the output directory
SkipsRoot(root, output_dir) == startswith(root, output_dir)

\* lines 178-185: the click
Click ==
    /\ bpc = "idle"
    /\ IF selected_tags = <<>>
       THEN bpc' = "warned" /\ UNCHANGED walk
       ELSE IF input_dir # <<>> /\ input_dir \in dirs
       THEN bpc' = "walk" /\ walk' = <<input_dir>>
       ELSE bpc' = "error" /\ UNCHANGED walk
    /\ files_to_process' = <<>>
    /\ UNCHANGED <<fs, dirs, uid_counter, runs, selected_tags, input_dir, i,
                   anonymized_count, results>>
    /\ UNCHANGED callVars

\* lines 186-191: os.walk yields one directory, top-down
WalkStep ==
    /\ bpc = "walk"
    /\ walk # <<>>
    /\ LET root == Head(walk) IN
       /\ walk' = Subdirs(root) \o Tail(walk)
       /\ files_to_process' =
             IF SkipsRoot(root, OutputDir(input_dir))
             THEN files_to_process
             ELSE files_to_process \o FilesIn(root)
    /\ UNCHANGED <<fs, dirs, uid_counter, runs, bpc, selected_tags, input_dir,
                   i, anonymized_count, results>>
    /\ UNCHANGED callVars

\* lines 193-200: the walk is over
WalkEnd ==
    /\ bpc = "walk"
    /\ walk = <<>>
    /\ bpc' = IF files_to_process = <<>> THEN "nofiles" ELSE "loop"
    /\ i' = 0
    /\ anonymized_count' = 0
    /\ UNCHANGED <<fs, dirs, uid_counter, runs, selected_tags, input_dir,
                   walk, files_to_process, results>>
    /\ UNCHANGED callVars

\* lines 202-206: the loop calls anonymize_dicom_file for the next file
LoopCall ==
    /\ bpc = "loop"
    /\ i < Len(files_to_process)
    /\ LET file_path == files_to_process[i + 1] IN
       Enter(file_path, OutputFilePath(file_path, input_dir), selected_tags)
    /\ bpc' = "in_call"
    /\ UNCHANGED <<fs, dirs, uid_counter, runs>>
    /\ UNCHANGED batchVars

\* lines 206-214: the call has returned
LoopReturn ==
    /\ bpc = "in_call"
    /\ pc = "returned"
    /\ anonymized_count' = IF ret = "True" THEN anonymized_count + 1
                                           ELSE anonymized_count
    /\ results' = Append(results, ret)
    /\ i' = i + 1
    /\ bpc' = "loop"
    /\ UNCHANGED <<fs, dirs, uid_counter, runs, selected_tags, input_dir,
                   walk, files_to_process>>
    /\ UNCHANGED callVars

\* lines 216-221: the summary
Finish ==
    /\ bpc = "loop"
    /\ i = Len(files_to_process)
    /\ bpc' = "done"
    /\ UNCHANGED <<fs, dirs, uid_counter, runs, selected_tags, input_dir,
                   walk, files_to_process, i, anonymized_count, results>>
    /\ UNCHANGED callVars

BatchInit ==
    /\ \E F \in {G \in SUBSET TreeFileSet : Cardinality(G) <= MaxFiles} :
          /\ fs \in [F -> TreeContents]
          /\ dirs = {InputDir} \cup UNION {makedirs(dirname(p)) : p \in F}
    /\ uid_counter = 0
    /\ selected_tags \in BatchSelections
    /\ input_dir = InputDir
    /\ input_path = <<>>
    /\ output_path = <<>>
    /\ tags_to_anonymize = <<>>
    /\ ds = EmptyDs
    /\ file_meta = EmptyDs
    /\ k = 0
    /\ pc = "idle"
    /\ ret = "none"
    /\ exc = "none"
    /\ failed_at = "none"
    /\ done = {}
    /\ wrote = FALSE
    /\ made_dirs = FALSE
    /\ uid_at_call = 0
    /\ runs = 0
    /\ bpc = "idle"
    /\ walk = <<>>
    /\ files_to_process = <<>>
    /\ i = 0
    /\ anonymized_count = 0
    /\ results = <<>>

BatchNext ==
    \/ Click
    \/ WalkStep
    \/ WalkEnd
    \/ LoopCall
    \/ FileStep
    \/ LoopReturn
    \/ Finish

BatchSpec == BatchInit /\ [][BatchNext]_vars

----------------------------------------------------------------------------
(* Properties of the batch (BatchSpec). *)

\* p is a file or directory below directory d, at any depth
InsideDir(p, d) ==
    /\ Len(p) > Len(d) + 1
    /\ SubSeq(p, 1, Len(d)) = d
    /\ p[Len(d) + 1] = Sep

Collected == {files_to_process[n] : n \in 1..Len(files_to_process)}

WalkOver == bpc \in {"nofiles", "loop", "in_call", "done", "aborted"}

\* C5 as stated: a file whose processing fails does not stop the batch: when
\* the handler has stopped, every collected file has been through a call and
\* the summary has been reached.
C5_FailureIsPerFile ==
    bpc \in {"done", "aborted"}
       => bpc = "done" /\ Len(results) = Len(files_to_process)

C8_OutputNeverCollected ==
    /\ \A p \in Collected : ~InsideDir(p, OutputDir(input_dir))
    /\ bpc \in {"in_call", "aborted"} => ~InsideDir(input_path, OutputDir(input_dir))

\* the walk is over in a tree with a file in the output directory and one in
\* a subdirectory of it
C8_Witness ==
    /\ WalkOver
    /\ join(OutputDir(input_dir), <<"a.dcm">>) \in DOMAIN fs
    /\ join(join(OutputDir(input_dir), <<"sub">>), <<"a.dcm">>) \in DOMAIN fs

\* C10 as stated: the walk collects, once each, exactly the files of the
\* tree that are not below the output directory.
C10_CollectsAllOutside ==
    WalkOver =>
      /\ Collected = {p \in DOMAIN fs : ~InsideDir(p, OutputDir(input_dir))}
      /\ \A m, n \in 1..Len(files_to_process) :
            files_to_process[m] = files_to_process[n] => m = n

====
